---- MODULE Spec2Model ----
(***************************************************************************)
(* Model of gitleaks_detection.py: one invocation of the wrapper script.   *)
(*                                                                         *)
(* The script parses its command line, validates --source, runs the        *)
(* external scanner synchronously, classifies its exit code and reshapes   *)
(* the scanner's findings file in place.  Every path ends in sys.exit, in  *)
(* falling off the end of the script, or in an exception nobody catches    *)
(* (the interpreter then prints a traceback and exits with status 1).      *)
(*                                                                         *)
(* Text is modelled as a sequence of characters.  The twelve characters    *)
(* "unknown flag" are one element of such a sequence: the element has no   *)
(* leading or trailing blank, so strip() and split("\n") treat it as they  *)
(* treat the twelve characters.  Directories are not modelled: every write *)
(* of the script is preceded by mkdir(parents=True, exist_ok=True).        *)
(***************************************************************************)
EXTENDS Integers, Sequences, FiniteSets, TLC

VARIABLES argv, fs, lastWriter, pc, args, gitleaks_args, result, raw_data,
          exitStatus, uncaught, started, reshaped

vars == <<argv, fs, lastWriter, pc, args, gitleaks_args, result, raw_data,
          exitStatus, uncaught, started, reshaped>>

\* ------------------------------------------------------------------------
\* Bounds
\* ------------------------------------------------------------------------
MaxRecords == 2

MaxStderrLen == 5

\* ------------------------------------------------------------------------
\* Text helpers (str.strip, the in operator, str.split)
\* ------------------------------------------------------------------------
SetMin(S) == CHOOSE x \in S : \A y \in S : x <= y

SetMax(S) == CHOOSE x \in S : \A y \in S : y <= x

IsSpace(c) == c \in {" ", "\n"}

Strip(s) ==
    LET keep == {i \in 1..Len(s) : ~IsSpace(s[i])}
    IN  IF keep = {} THEN <<>> ELSE SubSeq(s, SetMin(keep), SetMax(keep))

Occurrences(s, sep) ==
    {i \in 1..(Len(s) - Len(sep) + 1) : SubSeq(s, i, i + Len(sep) - 1) = sep}

Contains(s, sep) == Occurrences(s, sep) # {}

\* s.split(sep)[-1]; no separator used here can overlap itself, so the last
\* piece of the left-to-right split starts after the last occurrence.
SplitLast(s, sep) ==
    LET occ == Occurrences(s, sep)
    IN  IF occ = {} THEN s ELSE SubSeq(s, SetMax(occ) + Len(sep), Len(s))

\* s.split(sep)[0]
SplitFirst(s, sep) ==
    LET occ == Occurrences(s, sep)
    IN  IF occ = {} THEN s ELSE SubSeq(s, 1, SetMin(occ) - 1)

\* ------------------------------------------------------------------------
\* JSON documents and file contents
\* ------------------------------------------------------------------------
\* A JSON value of a record's field and its Python str(): ty is "missing"
\* when the key is not in the record.
Val(ty, s) == [ty |-> ty, s |-> s]

Missing == Val("missing", "")

\* One element of the scanner's array: a JSON object ("dict") with the four
\* keys of interest, or something that is not an object.
Item(kind, f, sl, el, d) ==
    [kind |-> kind, File |-> f, StartLine |-> sl, EndLine |-> el, Description |-> d]

NonDict(kind) == Item(kind, Missing, Missing, Missing, Missing)

\* class Finding(BaseModel), after model_dump()
Finding(filename, line_range, description) ==
    [filename |-> filename, line_range |-> line_range, description |-> description]

Content(kind, keys, items, findings, exit_code, error_message) ==
    [kind |-> kind, keys |-> keys, items |-> items, findings |-> findings,
     exit_code |-> exit_code, error_message |-> error_message]

\* no file at the path
Absent == Content("absent", <<>>, <<>>, <<>>, 0, <<>>)

\* a file whose text is not JSON (empty, truncated, ...)
Malformed == Content("malformed", <<>>, <<>>, <<>>, 0, <<>>)

JsonArray(items) == Content("array", <<>>, items, <<>>, 0, <<>>)

\* a JSON object other than the two documents below, known by its keys
JsonObject(keys) == Content("object", keys, <<>>, <<>>, 0, <<>>)

\* a JSON string of n characters
JsonString(n) == Content("string", <<>>, [i \in 1..n |-> NonDict("str")], <<>>, 0, <<>>)

\* a JSON number, true, false or null
JsonScalar == Content("scalar", <<>>, <<>>, <<>>, 0, <<>>)

\* {"findings": [...]}
ReportDocument(findings) ==
    Content("object", <<"findings">>, <<>>, findings, 0, <<>>)

\* class ErrorModel(BaseModel), after model_dump(): {"exit_code", "error_message"}
ErrorModel(exit_code, error_message) ==
    Content("object", <<"exit_code", "error_message">>, <<>>, <<>>, exit_code, error_message)

IsReportDocument(c) == c.kind = "object" /\ c.keys = <<"findings">>

IsErrorDocument(c) == c.kind = "object" /\ c.keys = <<"exit_code", "error_message">>

DEFAULT_REPORT == "output.json"

Paths == {DEFAULT_REPORT, "custom.json"}

\* ------------------------------------------------------------------------
\* Inputs: the command line, the files left by earlier runs, what the
\* scanner writes and what it prints on standard error
\* ------------------------------------------------------------------------
NONE == "<none>"

\* The command lines: -h alone, or [-s source] [-rp report] [command
\* subcommand] [flags].  positionals is empty or the pair command,
\* subcommand; flags are option-like words that follow.
Argv(help, source, report, positionals, flags) ==
    [help |-> help, source |-> source, report |-> report,
     positionals |-> positionals, flags |-> flags]

Argvs ==
    {Argv(TRUE, NONE, NONE, <<>>, <<>>)} \cup
    {Argv(FALSE, s, r, p, f) :
        s \in {NONE, "", "src", "nosuch"},
        r \in {NONE, DEFAULT_REPORT, "custom.json"},
        p \in {<<>>, <<"gitleaks", "detect">>, <<"gitleak", "detect">>},
        f \in {<<>>, <<"--no-git">>}}

\* the paths that exist on disk as sources
ExistingSources == {"src"}

Good1 == Item("dict", Val("str", "a.py"), Val("int", "12"), Val("int", "12"), Val("str", "AWS key"))

Good2 == Item("dict", Val("str", "b.py"), Val("int", "3"), Val("int", "7"), Val("str", "Token"))

Items ==
    {Good1, Good2,
     [Good1 EXCEPT !.File = Missing],
     [Good1 EXCEPT !.EndLine = Missing],
     [Good2 EXCEPT !.Description = Missing],
     [Good1 EXCEPT !.File = Val("int", "7")],
     [Good2 EXCEPT !.Description = Val("null", "None")],
     [Good1 EXCEPT !.StartLine = Val("str", "x")],
     NonDict("str"), NonDict("null")}

SeqsUpTo(S, n) == UNION {[1..k -> S] : k \in 0..n}

\* what the scanner may leave at the report path
ScannerOutputs ==
    {JsonArray(items) : items \in SeqsUpTo(Items, MaxRecords)} \cup
    {Malformed, JsonObject(<<>>), JsonObject(<<"version">>),
     JsonString(0), JsonString(1), JsonScalar}

UNKNOWN_FLAG == "unknown flag"

StderrChars == {UNKNOWN_FLAG, ":", " ", "\n", "-"}

StderrTexts == SeqsUpTo(StderrChars, MaxStderrLen)

\* the standard errors tried in the specification of the whole program
StderrSamples ==
    {<<>>, <<" ", "\n">>, <<"-", "\n", "-", " ">>,
     <<UNKNOWN_FLAG, ":", " ", "-", "-", "\n", "-">>,
     <<"-", UNKNOWN_FLAG, ":", " ", "-", " ", "\n">>,
     <<UNKNOWN_FLAG>>, <<UNKNOWN_FLAG, ":", " ">>,
     <<UNKNOWN_FLAG, ":", " ", "-", "\n", UNKNOWN_FLAG, ":", " ", "-", "-">>}

\* exit codes of the scanner other than 0 and 1
FailureCodes == {2, 126}

\* ------------------------------------------------------------------------
\* Termination and file writes
\* ------------------------------------------------------------------------
\* sys.exit(code): the status the parent sees is the low byte
SysExit(code) ==
    /\ pc' = "done"
    /\ exitStatus' = code % 256

\* an exception no handler catches: traceback, status 1
Uncaught(exc) ==
    /\ pc' = "done"
    /\ exitStatus' = 1
    /\ uncaught' = exc

WriteFile(path, content, who) ==
    /\ fs' = [fs EXCEPT ![path] = content]
    /\ lastWriter' = [lastWriter EXCEPT ![path] = who]

write_error_to_file(output_path, error_model, who) ==
    WriteFile(output_path, error_model, who)

FAILED == "Gitleaks scan failed: "

\* ------------------------------------------------------------------------
\* parse_arguments
\* ------------------------------------------------------------------------
USAGE_HINT == "Please provide the arguments like this: ..."

\* the message argparse hands to error(), "" when the command line parses
ParseErrorOf(a) ==
    IF a.positionals # <<>> /\ a.positionals[1] \notin {"gitleaks"}
    THEN "argument command: invalid choice"
    ELSE IF a.positionals = <<>> /\ a.flags # <<>>
    THEN "unrecognized arguments: --no-git"
    ELSE ""

\* -h: argparse prints the usage and exits with status 0
ParseHelp ==
    /\ pc = "start"
    /\ argv.help
    /\ SysExit(0)
    /\ UNCHANGED <<argv, fs, lastWriter, args, gitleaks_args, result, raw_data,
                   uncaught, started, reshaped>>

\* CustomArgumentParser.error
ParseError ==
    /\ pc = "start"
    /\ ~argv.help
    /\ ParseErrorOf(argv) # ""
    /\ write_error_to_file(DEFAULT_REPORT,
          ErrorModel(2, <<FAILED, ParseErrorOf(argv), " \n\n ", USAGE_HINT>>), "parser")
    /\ SysExit(2)
    /\ UNCHANGED <<argv, args, gitleaks_args, result, raw_data, uncaught,
                   started, reshaped>>

ParsedArgs(a) ==
    [source |-> a.source,
     report_path |-> IF a.report = NONE THEN DEFAULT_REPORT ELSE a.report,
     command |-> IF a.positionals = <<>> THEN "gitleaks" ELSE a.positionals[1],
     subcommand |-> IF a.positionals = <<>> THEN "detect" ELSE a.positionals[2],
     additional |-> a.flags]

ParseOk ==
    /\ pc = "start"
    /\ ~argv.help
    /\ ParseErrorOf(argv) = ""
    /\ args' = ParsedArgs(argv)
    /\ pc' = "validate"
    /\ UNCHANGED <<argv, fs, lastWriter, gitleaks_args, result, raw_data,
                   exitStatus, uncaught, started, reshaped>>

\* ------------------------------------------------------------------------
\* __main__: source validation and the scanner's argument vector
\* ------------------------------------------------------------------------
SourceIsEmpty(a) == a.source = ""

\* args.source or None is falsy
SourceNotGiven(a) == a.source \in {NONE, ""}

MissingSource ==
    /\ pc = "validate"
    /\ SourceNotGiven(args)
    /\ write_error_to_file(DEFAULT_REPORT,
          ErrorModel(2, <<FAILED, "please provide a source folder">>), "main")
    /\ SysExit(2)
    /\ UNCHANGED <<argv, args, gitleaks_args, result, raw_data, uncaught,
                   started, reshaped>>

InvalidSource ==
    /\ pc = "validate"
    /\ ~SourceNotGiven(args)
    /\ args.source \notin ExistingSources
    /\ write_error_to_file(DEFAULT_REPORT,
          ErrorModel(2, <<FAILED, "please provide a valid source folder">>), "main")
    /\ SysExit(2)
    /\ UNCHANGED <<argv, args, gitleaks_args, result, raw_data, uncaught,
                   started, reshaped>>

BuildCommand ==
    /\ pc = "validate"
    /\ ~SourceNotGiven(args)
    /\ args.source \in ExistingSources
    /\ gitleaks_args' = <<args.command, args.subcommand, "--source", args.source,
                          "--report-path", args.report_path>> \o args.additional
    /\ pc' = "invoke"
    /\ UNCHANGED <<argv, fs, lastWriter, args, result, raw_data, exitStatus,
                   uncaught, started, reshaped>>

\* ------------------------------------------------------------------------
\* run_gitleaks
\* ------------------------------------------------------------------------
UNKNOWN_FLAG_SEP == <<UNKNOWN_FLAG, ":", " ">>

NO_MESSAGE == <<"No error message captured.">>

StderrMessageUntrimmed(stderr) == IF stderr # <<>> THEN stderr ELSE NO_MESSAGE

\* e.output.strip() if e.output else "No error message captured."
StderrMessage(stderr) == IF stderr # <<>> THEN Strip(stderr) ELSE NO_MESSAGE

UnknownFlagTokenToEnd(stderr_message) == SplitLast(stderr_message, UNKNOWN_FLAG_SEP)

\* stderr_message.split("unknown flag: ")[-1].split("\n")[0]
UnknownFlagToken(stderr_message) ==
    SplitFirst(SplitLast(stderr_message, UNKNOWN_FLAG_SEP), <<"\n">>)

\* the ErrorModel built in the except block
InvokerError(returncode, stderr) ==
    LET stderr_message == StderrMessage(stderr)
    IN  IF Contains(stderr_message, <<UNKNOWN_FLAG>>)
        THEN ErrorModel(2, <<"Gitleaks scan failed: unknown argument '">>
                              \o UnknownFlagToken(stderr_message) \o <<"'.">>)
        ELSE ErrorModel(returncode, <<FAILED>> \o stderr_message)

InvokerExitCodeOfDocument(returncode, error) == error.exit_code

\* the argument of sys.exit in the except block
InvokerExitCode(returncode, error) == returncode

ReturnAfterFailure(code) ==
    /\ pc' = "reshape"
    /\ UNCHANGED exitStatus

\* the except block ends the program: sys.exit(e.returncode)
AfterFailure(code) == SysExit(code)

\* subprocess.run cannot start the command: FileNotFoundError leaves
\* run_gitleaks, whose handler names CalledProcessError only
GitleaksNotStartable ==
    /\ pc = "invoke"
    /\ started' = started + 1
    /\ Uncaught("FileNotFoundError")
    /\ UNCHANGED <<argv, fs, lastWriter, args, gitleaks_args, result, raw_data,
                   reshaped>>

\* return code 0 or 1: the scanner has written its findings file, or has
\* left the report path as it was
GitleaksCompleted ==
    /\ pc = "invoke"
    /\ started' = started + 1
    /\ \E rc \in {0, 1} : result' = [returncode |-> rc, stderr |-> <<>>]
    /\ \/ UNCHANGED <<fs, lastWriter>>
       \/ \E out \in ScannerOutputs : WriteFile(args.report_path, out, "scanner")
    /\ pc' = "reshape"
    /\ UNCHANGED <<argv, args, gitleaks_args, raw_data, exitStatus, uncaught,
                   reshaped>>

\* any other return code; whatever the scanner left at the report path is
\* overwritten by the error document
GitleaksFailed(texts) ==
    /\ pc = "invoke"
    /\ started' = started + 1
    /\ \E rc \in FailureCodes, err \in texts :
          LET error == InvokerError(rc, err)
          IN  /\ result' = [returncode |-> rc, stderr |-> err]
              /\ write_error_to_file(args.report_path, error, "invoker")
              /\ AfterFailure(InvokerExitCode(rc, error))
    /\ UNCHANGED <<argv, args, gitleaks_args, raw_data, uncaught, reshaped>>

\* ------------------------------------------------------------------------
\* process_output
\* ------------------------------------------------------------------------
RequiredKeys == <<"File", "StartLine", "EndLine", "Description">>

\* item[key]
Get(item, key) ==
    CASE key = "File" -> item.File
      [] key = "StartLine" -> item.StartLine
      [] key = "EndLine" -> item.EndLine
      [] key = "Description" -> item.Description

MissingKeys(item) == {i \in 1..4 : Get(item, RequiredKeys[i]).ty = "missing"}

\* the exception one element raises, "" when it becomes a Finding: indexing
\* something that is not a dict with a string is a TypeError, a missing key
\* a KeyError, a filename or description that is not a str a ValidationError;
\* the line numbers go through an f-string, which accepts every type
ItemError(item) ==
    IF item.kind # "dict" THEN "TypeError"
    ELSE IF MissingKeys(item) # {} THEN "KeyError"
    ELSE IF item.File.ty # "str" \/ item.Description.ty # "str" THEN "ValidationError"
    ELSE ""

\* str(e)
ItemErrorMessage(item) ==
    CASE ItemError(item) = "KeyError" -> <<"'", RequiredKeys[SetMin(MissingKeys(item))], "'">>
      [] ItemError(item) = "ValidationError" -> <<"validation error for Finding">>
      [] OTHER -> <<>>

ToFindingStartTwice(item) ==
    Finding(item.File.s, item.StartLine.s \o "-" \o item.StartLine.s, item.Description.s)

ToFinding(item) ==
    Finding(item.File.s, item.StartLine.s \o "-" \o item.EndLine.s, item.Description.s)

\* the elements "for item in raw_data" yields: the elements of an array, the
\* keys of an object, the characters of a string
Iterate(c) ==
    CASE c.kind = "array" -> c.items
      [] c.kind = "string" -> c.items
      [] c.kind = "object" -> [i \in 1..Len(c.keys) |-> NonDict("str")]
      [] OTHER -> <<>>

\* the first element that raises, 0 when none does
FirstBad(items) ==
    LET bad == {i \in 1..Len(items) : ItemError(items[i]) # ""}
    IN  IF bad = {} THEN 0 ELSE SetMin(bad)

Reshape(items) == [i \in 1..Len(items) |-> ToFinding(items[i])]

\* except (FileNotFoundError, ValidationError, KeyError)
Caught == {"FileNotFoundError", "ValidationError", "KeyError"}

ProcessOutput ==
    /\ pc = "reshape"
    /\ reshaped' = reshaped + 1
    /\ LET path == args.report_path
           \* not output_file.is_file(): json.dump([], f)
           loaded == IF fs[path].kind = "absent" THEN JsonArray(<<>>) ELSE fs[path]
           items == Iterate(loaded)
           bad == FirstBad(items)
           exc == IF loaded.kind = "malformed" THEN "JSONDecodeError"
                  ELSE IF loaded.kind = "scalar" THEN "TypeError"
                  ELSE IF bad # 0 THEN ItemError(items[bad])
                  ELSE ""
       IN  /\ raw_data' = IF loaded.kind = "malformed" THEN raw_data ELSE loaded
           /\ IF exc = ""
              THEN /\ WriteFile(path, ReportDocument(Reshape(items)), "reshaper")
                   /\ pc' = "done"
                   /\ exitStatus' = 0
                   /\ UNCHANGED uncaught
              ELSE IF exc \in Caught
              THEN /\ write_error_to_file(path, ErrorModel(1, ItemErrorMessage(items[bad])),
                                          "reshaper")
                   /\ SysExit(1)
                   /\ UNCHANGED uncaught
              ELSE /\ IF fs[path].kind = "absent"
                      THEN WriteFile(path, loaded, "reshaper")
                      ELSE UNCHANGED <<fs, lastWriter>>
                   /\ Uncaught(exc)
    /\ UNCHANGED <<argv, args, gitleaks_args, result, started>>

\* ------------------------------------------------------------------------
\* State after the interpreter has loaded the script
\* ------------------------------------------------------------------------
\* what an earlier run may have left at a path: nothing, or the report of
\* an earlier reshape
StaleContents == {Absent, ReportDocument(Reshape(<<Good2, Good1>>))}

NoArgs == [source |-> NONE, report_path |-> NONE, command |-> NONE,
           subcommand |-> NONE, additional |-> <<>>]

NoResult == [returncode |-> -1, stderr |-> <<>>]

InitWith(argvs, stale) ==
    /\ argv \in argvs
    /\ fs \in [Paths -> stale]
    /\ lastWriter = [p \in Paths |-> "before"]
    /\ pc = "start"
    /\ args = NoArgs
    /\ gitleaks_args = <<>>
    /\ result = NoResult
    /\ raw_data = Absent
    /\ exitStatus = -1
    /\ uncaught = ""
    /\ started = 0
    /\ reshaped = 0

Init == InitWith(Argvs, StaleContents)

\* ------------------------------------------------------------------------
\* Specifications
\* ------------------------------------------------------------------------
Next ==
    \/ ParseHelp
    \/ ParseError
    \/ ParseOk
    \/ MissingSource
    \/ InvalidSource
    \/ BuildCommand
    \/ GitleaksNotStartable
    \/ GitleaksCompleted
    \/ GitleaksFailed(StderrSamples)
    \/ ProcessOutput

Spec == Init /\ [][Next]_vars

\* The invoker alone, on every standard error up to MaxStderrLen characters
InvokerArgvs ==
    {Argv(FALSE, "src", r, <<"gitleaks", "detect">>, <<"--no-git">>) :
        r \in {NONE, "custom.json"}}

InitInvoker == InitWith(InvokerArgvs, StaleContents)

NextInvoker ==
    \/ ParseOk
    \/ BuildCommand
    \/ GitleaksFailed(StderrTexts \cup StderrSamples)

InvokerSpec == InitInvoker /\ [][NextInvoker]_vars

\* ------------------------------------------------------------------------
\* Properties
\* ------------------------------------------------------------------------
\* the report path of the invocation: --report-path, output.json when not given
GivenReportPath == IF argv.report = NONE THEN DEFAULT_REPORT ELSE argv.report

Terminated == pc = "done"

\* the paths at which this run has written an ErrorDocument that is still there
ErrorWrittenAt ==
    {p \in Paths : /\ lastWriter[p] \in {"parser", "main", "invoker", "reshaper"}
                   /\ IsErrorDocument(fs[p])}

ScannerFailed == started = 1 /\ result.returncode \notin {-1, 0, 1}

\* t is s without its leading and trailing blanks and line breaks
IsTrimOf(t, s) ==
    \E i \in 0..Len(s), j \in 0..Len(s) :
        /\ i <= j
        /\ t = SubSeq(s, i + 1, j)
        /\ \A k \in 1..i : IsSpace(s[k])
        /\ \A k \in (j + 1)..Len(s) : IsSpace(s[k])
        /\ i < j => ~IsSpace(s[i + 1]) /\ ~IsSpace(s[j])

\* the positions of t at which "unknown flag: " starts
MarkerAt(t) ==
    {i \in 1..(Len(t) - 2) : t[i] = UNKNOWN_FLAG /\ t[i + 1] = ":" /\ t[i + 2] = " "}

\* tok is the text of t from position from up to the next line break
IsLineFrom(tok, t, from) ==
    \E e \in (from - 1)..Len(t) :
        /\ tok = SubSeq(t, from, e)
        /\ \A k \in from..e : t[k] # "\n"
        /\ e = Len(t) \/ t[e + 1] = "\n"

UnknownArgumentMessage(tok) ==
    <<"Gitleaks scan failed: unknown argument '">> \o tok \o <<"'.">>

\* C1: when the program has terminated (other than through -h), the report
\* path of the invocation holds a ReportDocument or an ErrorDocument that
\* this run wrote: not the scanner's raw output, not what was there before.
C1_ReportPathHoldsDocument ==
    (Terminated /\ ~argv.help) =>
        /\ IsReportDocument(fs[GivenReportPath]) \/ IsErrorDocument(fs[GivenReportPath])
        /\ lastWriter[GivenReportPath] \notin {"before", "scanner"}

\* C2 as stated: wherever the run has written an ErrorDocument, the exit
\* status of the program is the exit_code of that document.
C2_ExitStatusIsDocumentCode ==
    Terminated => \A p \in ErrorWrittenAt : exitStatus = fs[p].exit_code

\* C2 amended: the exit status is the exit_code of the ErrorDocument the run
\* wrote, except when the scanner failed with "unknown flag" on standard
\* error: then the document says 2 and the program exits with the scanner's
\* own return code.
C2_ExitStatusIsDocumentCodeOrScanners ==
    Terminated => \A p \in ErrorWrittenAt :
        IF lastWriter[p] = "invoker" /\ Contains(result.stderr, <<UNKNOWN_FLAG>>)
        THEN fs[p].exit_code = 2 /\ exitStatus = result.returncode
        ELSE exitStatus = fs[p].exit_code

C2_Witness ==
    /\ Terminated
    /\ lastWriter[GivenReportPath] = "invoker"
    /\ Contains(result.stderr, <<UNKNOWN_FLAG>>)
    /\ fs[GivenReportPath].exit_code = 2
    /\ exitStatus = 126

\* C3 as stated: when the scanner fails and its standard error contains
\* "unknown flag: ", the ErrorDocument has exit_code 2 and names the text that
\* follows an occurrence of the marker in standard error, up to the next
\* line break.
C3_TokenFollowsMarkerInStderr ==
    (Terminated /\ ScannerFailed /\ MarkerAt(result.stderr) # {}) =>
        \E i \in MarkerAt(result.stderr), e \in 0..Len(result.stderr) :
            LET tok == SubSeq(result.stderr, i + 3, e)
            IN  /\ IsLineFrom(tok, result.stderr, i + 3)
                /\ fs[GivenReportPath] = ErrorModel(2, UnknownArgumentMessage(tok))

\* C3 amended: when the scanner fails and its standard error contains
\* "unknown flag", the ErrorDocument has exit_code 2 and names a token of the
\* trimmed standard error: the text after the last "unknown flag: " up to the
\* next line break, or the whole first line when the trimmed text has no
\* "unknown flag: ".
C3_TokenFollowsLastMarkerInTrimmedStderr ==
    (Terminated /\ ScannerFailed /\ Contains(result.stderr, <<UNKNOWN_FLAG>>)) =>
        \E i \in 0..Len(result.stderr), j \in 0..Len(result.stderr) :
            LET t == SubSeq(result.stderr, i + 1, j)
                from == IF MarkerAt(t) = {} THEN 1 ELSE SetMax(MarkerAt(t)) + 3
            IN  /\ IsTrimOf(t, result.stderr)
                /\ \E e \in (from - 1)..Len(t) :
                      /\ IsLineFrom(SubSeq(t, from, e), t, from)
                      /\ fs[GivenReportPath] =
                            ErrorModel(2, UnknownArgumentMessage(SubSeq(t, from, e)))

C3_Witness ==
    /\ Terminated
    /\ ScannerFailed
    /\ result.stderr = <<UNKNOWN_FLAG, ":", " ", "-", "-", "\n", "-">>
    /\ fs[GivenReportPath] = ErrorModel(2, UnknownArgumentMessage(<<"-", "-">>))

\* C4: when the scanner fails with return code c and its standard error does
\* not contain "unknown flag", the program exits with status c and the
\* ErrorDocument holds c and "Gitleaks scan failed: " followed by the trimmed
\* standard error, or by "No error message captured." when it is empty.
C4_OtherFailurePropagated ==
    (Terminated /\ ScannerFailed /\ ~Contains(result.stderr, <<UNKNOWN_FLAG>>)) =>
        /\ exitStatus = result.returncode
        /\ \E i \in 0..Len(result.stderr), j \in 0..Len(result.stderr) :
              LET t == SubSeq(result.stderr, i + 1, j)
              IN  /\ IsTrimOf(t, result.stderr)
                  /\ fs[GivenReportPath] =
                        ErrorModel(result.returncode,
                                   <<FAILED>> \o (IF result.stderr = <<>> THEN NO_MESSAGE ELSE t))

C4_Witness ==
    /\ Terminated
    /\ ScannerFailed
    /\ result.stderr = <<" ", "-", "\n", "-", " ">>
    /\ exitStatus = 126
    /\ fs[GivenReportPath] = ErrorModel(126, <<FAILED, "-", "\n", "-">>)

\* process_output has read a JSON array from the report path
ReshapedArray == Terminated /\ reshaped = 1 /\ raw_data.kind = "array"

HasAllKeys(item) ==
    /\ item.kind = "dict"
    /\ item.File.ty # "missing" /\ item.StartLine.ty # "missing"
    /\ item.EndLine.ty # "missing" /\ item.Description.ty # "missing"

\* a RawFinding: the four keys, File and Description strings
IsRawFinding(item) ==
    /\ HasAllKeys(item)
    /\ item.File.ty = "str"
    /\ item.Description.ty = "str"

\* a record that a validation of RawFinding rejects: a key is missing, or a
\* field has another type than RawFinding gives it
FailsValidation(item) ==
    /\ item.kind = "dict"
    /\ \/ ~HasAllKeys(item)
       \/ item.File.ty # "str"
       \/ item.StartLine.ty # "int"
       \/ item.EndLine.ty # "int"
       \/ item.Description.ty # "str"

\* C5: when the scanner returned 0 or 1 and the findings file is an array of
\* n RawFinding records (no file counting as the empty array), the program
\* exits with 0 and the report path holds {"findings": [...]} with n entries
\* in the records' order, entry i being File, "StartLine-EndLine" and
\* Description of record i.
C5_ReportMirrorsRecords ==
    (/\ ReshapedArray
     /\ result.returncode \in {0, 1}
     /\ \A i \in 1..Len(raw_data.items) : IsRawFinding(raw_data.items[i])) =>
        /\ exitStatus = 0
        /\ uncaught = ""
        /\ IsReportDocument(fs[GivenReportPath])
        /\ lastWriter[GivenReportPath] = "reshaper"
        /\ Len(fs[GivenReportPath].findings) = Len(raw_data.items)
        /\ \A i \in 1..Len(raw_data.items) :
              LET f == fs[GivenReportPath].findings[i]
                  r == raw_data.items[i]
              IN  /\ f.filename = r.File.s
                  /\ f.line_range = r.StartLine.s \o "-" \o r.EndLine.s
                  /\ f.description = r.Description.s

C5_Witness ==
    /\ Terminated
    /\ result.returncode = 1
    /\ raw_data = JsonArray(<<Good2, Good1>>)
    /\ lastWriter[GivenReportPath] = "reshaper"
    /\ fs[GivenReportPath] =
          ReportDocument(<<Finding("b.py", "3-7", "Token"), Finding("a.py", "12-12", "AWS key")>>)

\* C6: when a record of the findings file fails validation, wherever it
\* stands in the array, the report path ends up holding an ErrorDocument
\* with exit_code 1 and the program exits with status 1.
C6_AnyInvalidRecordAborts ==
    (/\ ReshapedArray
     /\ \E i \in 1..Len(raw_data.items) : FailsValidation(raw_data.items[i])) =>
        /\ IsErrorDocument(fs[GivenReportPath])
        /\ fs[GivenReportPath].exit_code = 1
        /\ exitStatus = 1

ContainsText(msg, text) == \E i \in 1..Len(msg) : msg[i] = text

\* C7 as stated: when --source is not given, the program exits with status
\* 2 and has written an ErrorDocument with exit_code 2 whose message
\* contains "please provide a source folder".
C7_NoSourceAlwaysAsksForSource ==
    (Terminated /\ ~argv.help /\ argv.source = NONE) =>
        /\ exitStatus = 2
        /\ \E p \in ErrorWrittenAt :
              /\ fs[p].exit_code = 2
              /\ ContainsText(fs[p].error_message, "please provide a source folder")

\* C7 amended: when --source is not given and argparse accepts the command
\* line, the program exits with status 2 and has written an ErrorDocument
\* with exit_code 2 whose message contains "please provide a source folder".
C7_NoSourceAsksForSourceWhenParsed ==
    (Terminated /\ ~argv.help /\ argv.source = NONE /\ ParseErrorOf(argv) = "") =>
        /\ exitStatus = 2
        /\ \E p \in ErrorWrittenAt :
              /\ fs[p].exit_code = 2
              /\ ContainsText(fs[p].error_message, "please provide a source folder")

C7_Witness ==
    /\ Terminated
    /\ argv = Argv(FALSE, NONE, "custom.json", <<"gitleaks", "detect">>, <<"--no-git">>)
    /\ exitStatus = 2
    /\ lastWriter[DEFAULT_REPORT] = "main"

\* the command line is rejected: by argparse, for a missing --source, or for
\* a --source that does not exist
ConfigurationError ==
    /\ ~argv.help
    /\ \/ ParseErrorOf(argv) # ""
       \/ argv.source \in {NONE, ""}
       \/ argv.source \notin ExistingSources

C9_StepsInOrder ==
    /\ [](/\ started <= 1
          /\ reshaped <= 1
          /\ started = 1 => (/\ ~argv.help
                             /\ ParseErrorOf(argv) = ""
                             /\ argv.source \in ExistingSources)
          /\ reshaped = 1 => (started = 1 /\ result.returncode \in {0, 1}))
    /\ [][(\E p \in Paths : lastWriter[p] = "invoker") =>
             (fs' = fs /\ lastWriter' = lastWriter /\ reshaped' = reshaped)]_vars

C9_Witness ==
    /\ Terminated
    /\ lastWriter[GivenReportPath] = "invoker"
    /\ started = 1
    /\ reshaped = 0
    /\ exitStatus = 126

\* C10: the reshaper, run on a report path that holds the ReportDocument of
\* an earlier reshape, either leaves the file as it is and completes, or
\* leaves an ErrorDocument with exit_code 1 and ends the program through the
\* handler of process_output with status 1.
C10_SecondReshapeNoOpOrCleanError ==
    (Terminated /\ reshaped = 1 /\ IsReportDocument(raw_data)) =>
        \/ /\ fs[GivenReportPath] = raw_data
           /\ exitStatus = 0
           /\ uncaught = ""
        \/ /\ IsErrorDocument(fs[GivenReportPath])
           /\ fs[GivenReportPath].exit_code = 1
           /\ exitStatus = 1
           /\ uncaught = ""

====
